---- MODULE Spec2Model ----
(***************************************************************************)
(* Model of the Sonic polynomial evaluators (SyEval, SxEval) and of the    *)
(* batched verifier context (Batch) of zero-chain.                         *)
(*                                                                         *)
(* Scalars are elements of a prime field; group elements are represented   *)
(* by their discrete logarithm in that field (the groups have prime order).*)
(* Rust vectors are functions over 0 .. len-1, so that the code's index    *)
(* arithmetic (index - 1, d - n) is the model's index arithmetic.          *)
(* Each behaviour is one verification flow that owns one object: the       *)
(* objects share no state.                                                 *)
(***************************************************************************)
EXTENDS Integers, Sequences, FiniteSets, TLC

(* ------------------------------ bounds --------------------------------- *)
MaxN == 2
MaxRows == 2
MaxTerms == 2
MaxQ == 1
MaxD == 2
MaxAdds == 2

(* --------------------------- the scalar field -------------------------- *)
FieldModulus == 5

Fr == 0 .. (FieldModulus - 1)

FrZero == 0

FrOne == 1

Add(a, b) == (a + b) % FieldModulus

Sub(a, b) == (a + (FieldModulus - b)) % FieldModulus

Mul(a, b) == (a * b) % FieldModulus

Negate(a) == (FieldModulus - a) % FieldModulus

RECURSIVE Pow(_, _)
Pow(a, e) == IF e = 0 THEN FrOne ELSE Mul(a, Pow(a, e - 1))

\* Option<Fr>
None == [some |-> FALSE]

Some(a) == [some |-> TRUE, val |-> a]

\* Field::inverse: None for the additive identity, otherwise a^(p-2)
Inverse(a) == IF a = FrZero THEN None ELSE Some(Pow(a, FieldModulus - 2))

(* ------------------------------ vectors -------------------------------- *)
\* vec![val; n]
VecOf(val, n) == [i \in 0 .. (n - 1) |-> val]

VLen(vec) == Cardinality(DOMAIN vec)

\* Vec::extend: b's entries after a's, in order
Extend(a, b) ==
    [i \in 0 .. (VLen(a) + VLen(b) - 1) |->
        IF i < VLen(a) THEN a[i] ELSE b[i - VLen(a)]]

\* Vec::resize to a longer length, filling with val
Resize(a, len, val) ==
    [i \in 0 .. (len - 1) |-> IF i < VLen(a) THEN a[i] ELSE val]

\* coeffs[i] *= first_power * base^i
eval_bivar_poly(coeffs, first_power, base) ==
    [i \in DOMAIN coeffs |-> Mul(coeffs[i], Mul(first_power, Pow(base, i)))]

\* a[i] += b[i]
add_polynomials(a, b) == [i \in DOMAIN a |-> Add(a[i], b[i])]

(* ------------------------- usize arithmetic ---------------------------- *)
Profiles == {"debug", "release"}

\* a - b on usize.  A result below zero is a panic under overflow checks and
\* wraps to 2^64 - (b - a) without them; the wrapped value is kept as the
\* distance below 2^64.
USub(a, b, profile) ==
    IF a >= b THEN [kind |-> "value", val |-> a - b]
    ELSE IF profile = "debug" THEN [kind |-> "overflow"]
    ELSE [kind |-> "wrapped", below |-> b - a]

\* vec[idx] is in bounds: a wrapped index is at least 2^63 and no Vec is
\* that long.
InBounds(vec, idx) == idx.kind = "value" /\ idx.val < VLen(vec)

PanicReason(idx) ==
    IF idx.kind = "overflow" THEN "attempt to subtract with overflow"
    ELSE "index out of bounds"

(* ------------------------------- SyEval -------------------------------- *)
\* SyEval::new that pads every sequence to n + q, not pos_coeffs alone
SyEval_new_PadsAll(x, n, q) ==
    LET x_opt == Inverse(x) IN
    IF ~x_opt.some THEN [st |-> "DivisionByZero"]
    ELSE
        LET x_inv == x_opt.val
            pos0 == eval_bivar_poly(VecOf(Negate(FrOne), n), Pow(x, n + 1), x)
        IN  [st |-> "Ok",
             obj |-> [max_n |-> n, current_q |-> 0,
                      a |-> Resize(eval_bivar_poly(VecOf(FrOne, n), x_inv, x_inv),
                                   n + q, FrZero),
                      b |-> Resize(eval_bivar_poly(VecOf(FrOne, n), x, x),
                                   n + q, FrZero),
                      c |-> Resize(eval_bivar_poly(VecOf(FrOne, n), Pow(x, n + 1), x),
                                   n + q, FrZero),
                      pos_coeffs |-> Resize(pos0, n + q, FrZero),
                      neg_coeffs |-> pos0]]

SyEval_new(x, n, q) ==
    LET x_opt == Inverse(x) IN
    IF ~x_opt.some THEN [st |-> "DivisionByZero"]
    ELSE
        LET x_inv == x_opt.val
            minus_one == Negate(FrOne)
            pos0 == eval_bivar_poly(VecOf(minus_one, n), Pow(x, n + 1), x)
        IN  [st |-> "Ok",
             obj |-> [max_n |-> n, current_q |-> 0,
                      a |-> eval_bivar_poly(VecOf(FrOne, n), x_inv, x_inv),
                      b |-> eval_bivar_poly(VecOf(FrOne, n), x, x),
                      c |-> eval_bivar_poly(VecOf(FrOne, n), Pow(x, n + 1), x),
                      pos_coeffs |-> Resize(pos0, n + q, FrZero),
                      neg_coeffs |-> pos0]]

(* ------------------------------- SxEval -------------------------------- *)
Families == {"A", "B", "C"}

\* Coeff<E>: Zero, One, NegativeOne, Full(scalar)
FullScalars == {2}

Coeffs ==
    {[kind |-> "Zero"], [kind |-> "One"], [kind |-> "NegativeOne"]}
        \cup {[kind |-> "Full", val |-> s] : s \in FullScalars}

SxEval_new(y, n) ==
    LET yqn == Pow(y, n)
        u == VecOf(FrZero, n)
        v == VecOf(FrZero, n)
        neg_one == Negate(FrOne)
        y_opt == Inverse(y)
    IN  IF ~y_opt.some THEN [st |-> "DivisionByZero"]
        ELSE
            LET y_inv == y_opt.val
                w == eval_bivar_poly(VecOf(neg_one, n), y, y)
                neg_w == eval_bivar_poly(VecOf(neg_one, n), y_inv, y_inv)
            IN  [st |-> "Ok",
                 obj |-> [y |-> y, yqn |-> yqn, u |-> u, v |-> v,
                          w |-> add_polynomials(w, neg_w)]]

\* neg_pos_poly that appends v onto w
neg_pos_poly_Swapped(self) == [neg |-> self.u, pos |-> Extend(self.w, self.v)]

\* self.v.extend(self.w); (self.u, self.v)
neg_pos_poly(self) == [neg |-> self.u, pos |-> Extend(self.v, self.w)]

\* new_linear_constraint that adds y instead of multiplying by it
new_linear_constraint_Adds(self) == [self EXCEPT !.yqn = Add(@, self.y)]

\* self.yqn.mul_assign(&self.y)
new_linear_constraint(self) == [self EXCEPT !.yqn = Mul(@, self.y)]

\* Combine whose Full case forgets to scale the scalar by yqn
Combine_FullUnscaled(uvw_val, coeff, yqn) ==
    CASE coeff.kind = "Zero" -> uvw_val
      [] coeff.kind = "One" -> Add(uvw_val, yqn)
      [] coeff.kind = "NegativeOne" -> Sub(uvw_val, yqn)
      [] coeff.kind = "Full" -> Add(uvw_val, coeff.val)

\* the slot after the coefficient is combined with it
Combine(uvw_val, coeff, yqn) ==
    CASE coeff.kind = "Zero" -> uvw_val
      [] coeff.kind = "One" -> Add(uvw_val, yqn)
      [] coeff.kind = "NegativeOne" -> Sub(uvw_val, yqn)
      [] coeff.kind = "Full" -> Add(uvw_val, Mul(coeff.val, yqn))

\* the field of self that the variable's family selects
FieldOf(fam) ==
    CASE fam = "A" -> "u"
      [] fam = "B" -> "v"
      [] fam = "C" -> "w"

\* insert_coefficient that uses the 1-based index as the position
insert_coefficient_OffByOne(self, var, coeff, profile) ==
    LET idx == [kind |-> "value", val |-> var.index]
        f == FieldOf(var.fam)
    IN  IF ~InBounds(self[f], idx)
        THEN [st |-> "panic", reason |-> PanicReason(idx)]
        ELSE [st |-> "Ok",
              obj |-> [self EXCEPT ![f][idx.val] = Combine(@, coeff, self.yqn)]]

\* insert_coefficient: [st |-> "Ok", obj] or a panic of the index expression
insert_coefficient(self, var, coeff, profile) ==
    LET idx == USub(var.index, 1, profile)
        f == FieldOf(var.fam)
    IN  IF ~InBounds(self[f], idx)
        THEN [st |-> "panic", reason |-> PanicReason(idx)]
        ELSE [st |-> "Ok",
              obj |-> [self EXCEPT ![f][idx.val] = Combine(@, coeff, self.yqn)]]

(* -------------------------------- SRS ---------------------------------- *)
\* A group element is represented by its discrete logarithm; the structured
\* reference string holds d + 1 elements of each sequence.
SRS_new(d, x, alpha) ==
    LET x_inv == Inverse(x).val IN
    [d |-> d,
     g_pos_x |-> [i \in 0 .. d |-> Pow(x, i)],
     h_pos_x_alpha |-> [i \in 0 .. d |-> Mul(alpha, Pow(x, i))],
     h_neg_x |-> [i \in 0 .. d |-> Pow(x_inv, i)]]

\* CurveAffine::negate
GNegate(pt) == Negate(pt)

\* CurveAffine::prepare
Prepare(pt) == [prepared |-> pt]

(* ------------------------------- Batch --------------------------------- *)
Lit(i) == [kind |-> "value", val |-> i]

\* Vec::push
Push(vec, e) == [i \in 0 .. VLen(vec) |-> IF i < VLen(vec) THEN vec[i] ELSE e]

EmptyVec == VecOf(FrZero, 0)

\* Batch::new: the struct's fields are evaluated in order; an index
\* expression out of range panics
Batch_new(srs, n, profile) ==
    LET d_minus_n == USub(srs.d, n, profile) IN
    IF ~InBounds(srs.h_pos_x_alpha, Lit(1))
    THEN [st |-> "panic", reason |-> "index out of bounds"]
    ELSE IF ~InBounds(srs.h_pos_x_alpha, Lit(0))
    THEN [st |-> "panic", reason |-> "index out of bounds"]
    ELSE IF ~InBounds(srs.h_neg_x, Lit(0))
    THEN [st |-> "panic", reason |-> "index out of bounds"]
    ELSE IF ~InBounds(srs.h_neg_x, d_minus_n)
    THEN [st |-> "panic", reason |-> PanicReason(d_minus_n)]
    ELSE IF ~InBounds(srs.g_pos_x, Lit(0))
    THEN [st |-> "panic", reason |-> "index out of bounds"]
    ELSE [st |-> "Ok",
          obj |-> [alpha_x |-> EmptyVec,
                   alpha_x_precomp |-> Prepare(srs.h_pos_x_alpha[1]),
                   alpha |-> EmptyVec,
                   alpha_precomp |-> Prepare(srs.h_pos_x_alpha[0]),
                   neg_h |-> EmptyVec,
                   neg_h_precomp |-> Prepare(GNegate(srs.h_neg_x[0])),
                   neg_x_n_minus_d |-> EmptyVec,
                   neg_x_n_minus_d_precomp |->
                       Prepare(GNegate(srs.h_neg_x[d_minus_n.val])),
                   value |-> FrZero,
                   g |-> srs.g_pos_x[0]]]

\* self.neg_h.push((comm, random))
add_comm(self, comm, random) ==
    [self EXCEPT !.neg_h = Push(@, <<comm, random>>)]

\* add_opening that pushes onto the alpha accumulator
add_opening_WrongAcc(self, opening, random, point) ==
    [self EXCEPT !.alpha = Push(@, <<opening, random>>)]

\* self.alpha_x.push((opening, random)); point is not used
add_opening(self, opening, random, point) ==
    [self EXCEPT !.alpha_x = Push(@, <<opening, random>>)]

\* unimplemented!()
check_all(self) == [st |-> "panic", reason |-> "not implemented"]

(* ------------------------- state of a flow ----------------------------- *)
VARIABLES
    args,        \* the constructor's arguments, kept for reference
    sxst,        \* SxEval: "unbuilt", "Ok", "DivisionByZero", "consumed", "panic"
    sx,          \* the SxEval value while it is owned
    rows,        \* number of new_linear_constraint calls made
    terms,       \* number of insert_coefficient calls that returned
    supplied,    \* <<q, family, i>> -> sum of the coefficients the walker
                 \* supplied for wire family(i) while q rows had begun
    inProtocol,  \* no term was added before the first row began
    ret,         \* what neg_pos_poly returned
    syst,        \* SyEval: "unbuilt", "Ok", "DivisionByZero"
    sy,          \* the SyEval value
    bst,         \* Batch: "unbuilt", "Ok", "panic"
    batch,       \* the Batch value
    lastPush,    \* the operation and pair of the last add_comm / add_opening
    nComm,       \* number of add_comm calls made
    nOpen,       \* number of add_opening calls made
    checked,     \* check_all: "no", "true", "false", "panic"
    abort        \* the panic that ended the flow, if any

evalVars == <<args, sxst, sx, rows, terms, supplied, inProtocol, ret, syst, sy>>

batchVars == <<bst, batch, lastPush, nComm, nOpen, checked>>

vars == <<evalVars, batchVars, abort>>

Nil == [nil |-> TRUE]

NoAbort == [op |-> "none"]

\* evaluation points: SyEval at every scalar; SxEval at zero, at a generator
\* of the multiplicative group and at its inverse
SyPoints == Fr

SxPoints == {0, 2, 3}

Sizes == 0 .. MaxN

\* the trusted setup's secrets, the commitments and the randomizers offered
TrustedSetups == {[x |-> 2, alpha |-> 3]}

Degrees == 1 .. MaxD

G1Points == {1, 4}

Randomizers == Fr

\* the scalar a coefficient stands for
CoeffValue(coeff) ==
    CASE coeff.kind = "Zero" -> FrZero
      [] coeff.kind = "One" -> FrOne
      [] coeff.kind = "NegativeOne" -> Negate(FrOne)
      [] coeff.kind = "Full" -> coeff.val

Cells(n) == (0 .. MaxRows) \X Families \X (1 .. n)

Init ==
    /\ args = Nil
    /\ sxst = "unbuilt"
    /\ sx = Nil
    /\ rows = 0
    /\ terms = 0
    /\ supplied = << >>
    /\ inProtocol = TRUE
    /\ ret = Nil
    /\ syst = "unbuilt"
    /\ sy = Nil
    /\ bst = "unbuilt"
    /\ batch = Nil
    /\ lastPush = Nil
    /\ nComm = 0
    /\ nOpen = 0
    /\ checked = "no"
    /\ abort = NoAbort

Unbuilt ==
    sxst = "unbuilt" /\ syst = "unbuilt" /\ bst = "unbuilt" /\ abort = NoAbort

\* SyEval::new(x, n, q)
SyNew ==
    /\ Unbuilt
    /\ \E x \in SyPoints, n \in Sizes, q \in 0 .. MaxQ :
        LET r == SyEval_new(x, n, q) IN
        /\ args' = [x |-> x, n |-> n, q |-> q]
        /\ syst' = r.st
        /\ sy' = IF r.st = "Ok" THEN r.obj ELSE Nil
    /\ UNCHANGED <<sxst, sx, rows, terms, supplied, inProtocol, ret, abort>>
    /\ UNCHANGED batchVars

\* SxEval::new(y, n)
SxNew ==
    /\ Unbuilt
    /\ \E y \in SxPoints, n \in Sizes :
        LET r == SxEval_new(y, n) IN
        /\ args' = [y |-> y, n |-> n]
        /\ sxst' = r.st
        /\ sx' = IF r.st = "Ok" THEN r.obj ELSE Nil
        /\ supplied' = [c \in Cells(n) |-> FrZero]
    /\ UNCHANGED <<rows, terms, inProtocol, ret, syst, sy, abort>>
    /\ UNCHANGED batchVars

\* the walker begins a constraint row
NewLinearConstraint ==
    /\ sxst = "Ok"
    /\ rows < MaxRows
    /\ sx' = new_linear_constraint(sx)
    /\ rows' = rows + 1
    /\ UNCHANGED <<args, sxst, terms, supplied, inProtocol, ret, syst, sy, abort>>
    /\ UNCHANGED batchVars

\* the walker adds a term
InsertCoefficient ==
    /\ sxst = "Ok"
    /\ terms < MaxTerms
    /\ \E fam \in Families, index \in 0 .. (args.n + 1), coeff \in Coeffs,
          profile \in Profiles :
        LET var == [fam |-> fam, index |-> index]
            r == insert_coefficient(sx, var, coeff, profile)
        IN  \/ /\ r.st = "Ok"
               /\ sx' = r.obj
               /\ terms' = terms + 1
               /\ supplied' = [supplied EXCEPT ![<<rows, fam, index>>] =
                                  Add(@, CoeffValue(coeff))]
               /\ inProtocol' = (inProtocol /\ rows >= 1)
               /\ UNCHANGED <<sxst, abort>>
            \/ /\ r.st = "panic"
               /\ sxst' = "panic"
               /\ abort' = [op |-> "insert_coefficient", reason |-> r.reason,
                            index |-> index]
               /\ UNCHANGED <<sx, terms, supplied, inProtocol>>
    /\ UNCHANGED <<args, rows, ret, syst, sy>>
    /\ UNCHANGED batchVars

\* the flow finalizes: neg_pos_poly takes the SxEval by value
NegPosPoly ==
    /\ sxst = "Ok"
    /\ ret' = neg_pos_poly(sx)
    /\ sxst' = "consumed"
    /\ sx' = Nil
    /\ UNCHANGED <<args, rows, terms, supplied, inProtocol, syst, sy, abort>>
    /\ UNCHANGED batchVars

\* Batch::new(srs, n)
BatchNew ==
    /\ Unbuilt
    /\ \E ts \in TrustedSetups, d \in Degrees, n \in 0 .. (MaxD + 1),
          profile \in Profiles :
        LET srs == SRS_new(d, ts.x, ts.alpha)
            r == Batch_new(srs, n, profile)
        IN  /\ args' = [srs |-> srs, n |-> n]
            /\ bst' = r.st
            /\ batch' = IF r.st = "Ok" THEN r.obj ELSE Nil
            /\ abort' = IF r.st = "panic"
                        THEN [op |-> "Batch::new", reason |-> r.reason]
                        ELSE NoAbort
    /\ UNCHANGED <<lastPush, nComm, nOpen, checked>>
    /\ UNCHANGED <<sxst, sx, rows, terms, supplied, inProtocol, ret, syst, sy>>

\* add_comm(comm, random)
AddComm ==
    /\ bst = "Ok"
    /\ nComm + nOpen < MaxAdds
    /\ \E comm \in G1Points, random \in Randomizers :
        /\ batch' = add_comm(batch, comm, random)
        /\ lastPush' = [op |-> "add_comm", el |-> comm, random |-> random]
    /\ nComm' = nComm + 1
    /\ UNCHANGED <<bst, nOpen, checked, abort>>
    /\ UNCHANGED evalVars

\* add_opening(opening, random, point)
AddOpening ==
    /\ bst = "Ok"
    /\ nComm + nOpen < MaxAdds
    /\ \E opening \in G1Points, random \in Randomizers, point \in Fr :
        /\ batch' = add_opening(batch, opening, random, point)
        /\ lastPush' = [op |-> "add_opening", el |-> opening, random |-> random]
    /\ nOpen' = nOpen + 1
    /\ UNCHANGED <<bst, nComm, checked, abort>>
    /\ UNCHANGED evalVars

\* check_all takes the Batch by value
CheckAll ==
    /\ bst = "Ok"
    /\ LET r == check_all(batch) IN
        /\ bst' = IF r.st = "panic" THEN "panic" ELSE "consumed"
        /\ checked' = IF r.st = "panic" THEN "panic"
                      ELSE IF r.val THEN "true" ELSE "false"
        /\ abort' = IF r.st = "panic"
                    THEN [op |-> "check_all", reason |-> r.reason]
                    ELSE NoAbort
    /\ UNCHANGED <<batch, lastPush, nComm, nOpen>>
    /\ UNCHANGED evalVars

Next ==
    \/ SyNew
    \/ SxNew
    \/ NewLinearConstraint
    \/ InsertCoefficient
    \/ NegPosPoly
    \/ BatchNew
    \/ AddComm
    \/ AddOpening
    \/ CheckAll

Spec == Init /\ [][Next]_vars

(* ------------------------------ properties ----------------------------- *)

\* C1: the running power of an SxEval built by SxEval::new(y, n) is y^n
\* before any new_linear_constraint call and y^(n+k) after k calls, whatever
\* insert_coefficient calls are interleaved; y stays the constructor's y.
C1_RunningPower ==
    sxst = "Ok" =>
        /\ sx.yqn = Pow(args.y, args.n + rows)
        /\ sx.y = args.y

C1_Witness ==
    /\ sxst = "Ok"
    /\ rows = 2
    /\ terms = 2
    /\ args.n = 2
    /\ sx.yqn # Pow(args.y, args.n)

\* sum over the rows 1 .. q of y^(n+row) * (coefficients supplied in the row)
RECURSIVE RowSum(_, _, _)
RowSum(fam, i, q) ==
    IF q = 0 THEN FrZero
    ELSE Add(RowSum(fam, i, q - 1),
             Mul(Pow(args.y, args.n + q), supplied[<<q, fam, i>>]))

\* -y^i - y^(-i)
Penalty(i) ==
    Sub(Negate(Pow(args.y, i)), Pow(Inverse(args.y).val, i))

\* C2: when the walker follows the listener protocol (each row begun before
\* its terms), neg_pos_poly returns (u, v') with u[i-1] = sum_q y^(n+q) u_{q,i},
\* v'[i-1] = sum_q y^(n+q) v_{q,i} and
\* v'[n+i-1] = -y^i - y^(-i) + sum_q y^(n+q) w_{q,i}, for every i in 1 .. n.
C2_WalkerResult ==
    (sxst = "consumed" /\ inProtocol) =>
        \A i \in 1 .. args.n :
            /\ ret.neg[i - 1] = RowSum("A", i, rows)
            /\ ret.pos[i - 1] = RowSum("B", i, rows)
            /\ ret.pos[args.n + i - 1] = Add(Penalty(i), RowSum("C", i, rows))

C2_Witness ==
    /\ sxst = "consumed"
    /\ inProtocol
    /\ rows = 2
    /\ \E fam \in Families, i \in 1 .. args.n :
        /\ supplied[<<1, fam, i>>] # FrZero
        /\ supplied[<<2, fam, i>>] # FrZero

\* the step added the scalar c, times yqn, to the slot of wire fam(i) and
\* changed nothing else of the SxEval
SlotStep(fam, i, c) ==
    LET delta == Mul(c, sx.yqn) IN
    /\ sx'.y = sx.y
    /\ sx'.yqn = sx.yqn
    /\ sx'.u = IF fam = "A" THEN [sx.u EXCEPT ![i - 1] = Add(@, delta)] ELSE sx.u
    /\ sx'.v = IF fam = "B" THEN [sx.v EXCEPT ![i - 1] = Add(@, delta)] ELSE sx.v
    /\ sx'.w = IF fam = "C" THEN [sx.w EXCEPT ![i - 1] = Add(@, delta)] ELSE sx.w

\* C3: insert_coefficient(var, coeff) with an index in 1 .. n changes exactly
\* the slot u/v/w[index-1] its family selects, adding the coefficient's
\* scalar (0, 1, -1 or the Full scalar) times yqn to it; every other slot,
\* y and yqn are unchanged.
C3_InsertFrame ==
    [][terms' = terms + 1 =>
        \E fam \in Families, i \in 1 .. args.n, c \in Fr :
            /\ supplied' = [supplied EXCEPT ![<<rows, fam, i>>] = Add(@, c)]
            /\ SlotStep(fam, i, c)]_vars

C3_Witness ==
    /\ sxst = "Ok"
    /\ args.n = 2
    /\ rows = 1
    /\ terms = 2
    /\ supplied[<<1, "B", 2>>] = Add(Negate(FrOne), 2)
    /\ \A c \in Cells(args.n) : c # <<1, "B", 2>> => supplied[c] = FrZero
    /\ sx.v[1] = Pow(args.y, args.n + 1)
    /\ sx.v[0] = FrZero

\* C4: neg_pos_poly consumes the SxEval and returns (u, v') where u is the
\* accumulated u (length n) and v' has length 2n: v's entries in order, then
\* w's entries in order.
C4_NegPosPoly ==
    [][(sxst = "Ok" /\ sxst' = "consumed") =>
        /\ sx' = Nil
        /\ ret'.neg = sx.u
        /\ VLen(ret'.neg) = args.n
        /\ VLen(ret'.pos) = 2 * args.n
        /\ \A i \in 0 .. (args.n - 1) :
            /\ ret'.pos[i] = sx.v[i]
            /\ ret'.pos[args.n + i] = sx.w[i]]_vars

C4_Witness ==
    /\ sxst = "consumed"
    /\ args.n = 2
    /\ terms = 2
    /\ ret.pos[0] # ret.pos[2]
    /\ ret.pos[1] # ret.pos[3]

\* C5: each evaluator constructor returns DivisionByZero exactly when its
\* point is zero; for a nonzero point SyEval::new yields a, b, c of length n
\* and SxEval::new yields yqn = y^n and u, v of length n, all zero.
C5_Constructors ==
    /\ syst # "unbuilt" =>
        /\ abort = NoAbort
        /\ (syst = "DivisionByZero") <=> (args.x = FrZero)
        /\ args.x # FrZero =>
            /\ syst = "Ok"
            /\ VLen(sy.a) = args.n
            /\ VLen(sy.b) = args.n
            /\ VLen(sy.c) = args.n
    /\ sxst # "unbuilt" =>
        /\ (sxst = "DivisionByZero") <=> (args.y = FrZero)
        /\ (rows = 0 /\ terms = 0 /\ ret = Nil /\ abort = NoAbort
                /\ args.y # FrZero) =>
            /\ sxst = "Ok"
            /\ sx.yqn = Pow(args.y, args.n)
            /\ VLen(sx.u) = args.n
            /\ VLen(sx.v) = args.n
            /\ \A i \in 0 .. (args.n - 1) : sx.u[i] = FrZero /\ sx.v[i] = FrZero

C5_Witness ==
    /\ syst = "Ok"
    /\ args.n = 2
    /\ args.q = 1
    /\ VLen(sy.pos_coeffs) = 3

\* C6: insert_coefficient with an index outside 1 .. n fails with
\* InvalidWireIndex, leaving the SxEval as it was.
C6_InvalidWireIndex ==
    (abort.op = "insert_coefficient" /\ abort.index \notin 1 .. args.n) =>
        sxst = "InvalidWireIndex"

\* C7: Batch::new(srs, n) succeeds when n <= srs.d and, when n > srs.d,
\* returns BoundExceeded as a result value without aborting.
C7_BoundExceeded ==
    bst # "unbuilt" =>
        IF args.n <= args.srs.d
        THEN abort.op # "Batch::new" /\ bst # "BoundExceeded"
        ELSE abort.op # "Batch::new" /\ bst = "BoundExceeded"

\* C8: check_all on a Batch to which nothing was added terminates normally
\* and returns true.
C8_EmptyCheck ==
    (checked # "no" /\ nComm = 0 /\ nOpen = 0) => checked = "true"

\* new is old with the one entry e appended
Appended(old, new, e) ==
    /\ VLen(new) = VLen(old) + 1
    /\ \A i \in 0 .. (VLen(old) - 1) : new[i] = old[i]
    /\ new[VLen(old)] = e

\* C9: each add_comm appends exactly its pair to neg_h and each add_opening
\* exactly its pair to alpha_x; the accumulator lengths equal the numbers of
\* calls, earlier entries keep their order and values, and the other
\* accumulators, the prepared elements, value and g are unchanged.
C9_Append ==
    [][/\ nComm' = nComm + 1 =>
            /\ Appended(batch.neg_h, batch'.neg_h,
                        <<lastPush'.el, lastPush'.random>>)
            /\ lastPush'.op = "add_comm"
            /\ batch' = [batch EXCEPT !.neg_h = batch'.neg_h]
       /\ nOpen' = nOpen + 1 =>
            /\ Appended(batch.alpha_x, batch'.alpha_x,
                        <<lastPush'.el, lastPush'.random>>)
            /\ lastPush'.op = "add_opening"
            /\ batch' = [batch EXCEPT !.alpha_x = batch'.alpha_x]
       /\ bst' = "Ok" =>
            /\ VLen(batch'.neg_h) = nComm'
            /\ VLen(batch'.alpha_x) = nOpen'
            /\ VLen(batch'.alpha) = 0
            /\ VLen(batch'.neg_x_n_minus_d) = 0]_vars

C9_Witness ==
    /\ bst = "Ok"
    /\ nComm = 1
    /\ nOpen = 1
    /\ lastPush.op = "add_opening"
    /\ batch.neg_h[0] # batch.alpha_x[0]

\* C10: add_opening folds the evaluation point into value: from the same
\* Batch, the same opening and nonzero randomizer with two different points
\* leave different values.
C10_PointFolded ==
    bst = "Ok" =>
        \A opening \in G1Points, random \in Randomizers \ {FrZero},
           p1 \in Fr, p2 \in Fr :
            p1 # p2 =>
                add_opening(batch, opening, random, p1).value
                    # add_opening(batch, opening, random, p2).value

====
